---- MODULE Spec2Model ----
(***************************************************************************)
(* GRR ("Games Require Reflection"): the type registry (grr::context), the *)
(* declaration builder (grr::type_declaration), registration (add_type,    *)
(* add_type<T>, make_context) and the visitation engine (grr::visit) of    *)
(* include/grr/grr_base.hpp, built with GRR_PREDECLARE_FIELDS (the CMake   *)
(* default) and the default, empty GRR_USER_TYPES.                         *)
(*                                                                         *)
(* Conventions.                                                            *)
(*  - A name is the sequence of its bytes (ASCII codes).                   *)
(*  - A typeid_t (std::uint64_t) is the tuple of its four 16-bit limbs,    *)
(*    least significant first, so the arithmetic of binhash is exact       *)
(*    modulo 2^64.                                                         *)
(*  - A std::size_t is the integer n for the value n and the integer -n    *)
(*    for the value 2^64 - n (n small): + is then exact modulo 2^64 on the *)
(*    values the model reaches, and static_cast<std::size_t>(-1) is -1.    *)
(*  - tags (vector<tag_t>) are carried by no operation modelled here and   *)
(*    are left out of the records.                                         *)
(***************************************************************************)
EXTENDS Integers, Sequences, FiniteSets, TLC

VARIABLES storage, decl, ndecl, err, last

vars == <<storage, decl, ndecl, err, last>>

(***************************************************************************)
(* Bounds of the model                                                     *)
(***************************************************************************)
MaxFields == 3
MaxVisitFields == 2
MaxAnswers == 2
MaxDecls == 1
MaxErases == 1
MaxNameLen == 3
MaxBudget == 1

(***************************************************************************)
(* Identity hasher                                                         *)
(***************************************************************************)
Limb == 2^16

HashSeed == <<5381, 0, 0, 0>>

\* the value of a char that holds the byte b (0..255): the byte itself where
\* char is unsigned, b - 256 for b >= 128 where char is signed
CharValue(char_signed, b) == IF char_signed /\ b >= 128 THEN b - 256 ELSE b

\* the 64-bit value a char of value c in -128..255 converts to, as limbs:
\* a negative c converts to 2^64 + c
Extend(c) == IF c < 0 THEN <<Limb + c, Limb - 1, Limb - 1, Limb - 1>> ELSE <<c, 0, 0, 0>>

\* the limbs of h * 33 + a modulo 2^64 from limb k on, given the carry into it
RECURSIVE MulAdd(_, _, _, _)
MulAdd(h, a, k, carry) ==
    IF k > Len(h) THEN <<>>
    ELSE LET t == h[k] * 33 + a[k] + carry
         IN  <<t % Limb>> \o MulAdd(h, a, k + 1, t \div Limb)

\* hash *= 0x21; hash += sym, for a sym of value c
HashStep(h, c) == MulAdd(h, Extend(c), 1, 0)

\* the loop of binhash from byte i on, up to byte n
RECURSIVE HashFrom(_, _, _, _, _)
HashFrom(char_signed, h, str, i, n) ==
    IF i > n THEN h
    ELSE HashFrom(char_signed, HashStep(h, CharValue(char_signed, str[i])), str, i + 1, n)

\* binhash<std::uint64_t>(const std::string_view& str)
binhash_view(char_signed, str) == HashFrom(char_signed, HashSeed, str, 1, Len(str))

\* binhash<std::uint64_t>(const char* str, std::size_t size), size <= Len(str)
binhash_ptr(char_signed, str, sz) == HashFrom(char_signed, HashSeed, str, 1, sz)

\* the earlier API of grr_types.hpp.  binhash(const string_view&) is the same
\* loop
types_binhash_view(char_signed, str) == HashFrom(char_signed, HashSeed, str, 1, Len(str))

\* static_cast<unsigned int>(*str) converted to the 64-bit type, as limbs: a
\* negative char converts to 2^32 + c
ExtendUInt(c) == IF c < 0 THEN <<Limb + c, Limb - 1, 0, 0>> ELSE <<c, 0, 0, 0>>

\* binhash(const char* str), from byte i of a string without a zero byte:
\* *str != 0 ? static_cast<unsigned int>(*str) + 33 * binhash(str + 1) : 5381
RECURSIVE types_binhash_cstr(_, _, _)
types_binhash_cstr(char_signed, str, i) ==
    IF i > Len(str) THEN HashSeed
    ELSE MulAdd(types_binhash_cstr(char_signed, str, i + 1),
                ExtendUInt(CharValue(char_signed, str[i])), 1, 0)

\* the hash of a name whose bytes are all below 128: the builds agree on it
binhash(str) == binhash_view(TRUE, str)

(***************************************************************************)
(* Names: type names as type_name<T>() spells them, declared names, field  *)
(* names.                                                                  *)
(***************************************************************************)
Char == <<99, 104, 97, 114>>                    \* "char"
Pt == <<112, 116>>                              \* "pt"
NameA == <<65>>                                 \* "A"
NameN == <<78>>                                 \* "N"
FieldA == <<97>>                                \* "a"
FieldB == <<98>>                                \* "b"
Var == <<118, 97, 114>>                         \* "var"
Var0 == <<118, 97, 114, 48>>                    \* "var0"

PtrOf(T) == T \o <<42>>                         \* T*
VecOf(T) == <<118, 101, 99, 116, 111, 114, 60>> \o T \o <<62>>  \* vector<T>

CharP == PtrOf(Char)

\* the part of GRR_TYPES the model keeps, in the order of the list
GRR_TYPES == <<Char, CharP>>

\* struct pt { char a; char* b; };  GRR_REFLECT(pt, a, b)
NativeFields(T) ==
    IF T = Pt THEN << [name |-> FieldA, type |-> Char, offset |-> 0],
                      [name |-> FieldB, type |-> CharP, offset |-> 8] >>
    ELSE <<>>

is_aggregate(T) == T = Pt

IsVector(T) == Len(T) > 0 /\ T[Len(T)] = 62
IsPointer(T) == Len(T) > 0 /\ T[Len(T)] = 42

sizeof(T) ==
    IF IsVector(T) THEN 24
    ELSE IF IsPointer(T) THEN 8
    ELSE IF T = Pt THEN 16
    ELSE 1

\* the inputs of the calls
NativeTypes == {Char, Pt}
DeclNames == {NameA, Char}
DeclSizes == {0, 4}
FieldNames == {FieldA, FieldB}
NewNames == {NameN}
ExplicitOffsets == {2}

\* the names whose identifiers appear in the model
TypeNames ==
    {Char, CharP, Pt, NameA}
        \cup {VecOf(T) : T \in {Char, CharP, Pt}}
        \cup {VecOf(VecOf(T)) : T \in {Char, CharP, Pt}}

\* the type names the catalogue comparisons of visit_static spell
CatalogueNames ==
    UNION { {T, VecOf(T), VecOf(VecOf(T)), PtrOf(T), VecOf(PtrOf(T)),
             VecOf(VecOf(PtrOf(T)))} : T \in {GRR_TYPES[i] : i \in 1..Len(GRR_TYPES)} }

\* binhash over the names of the model, evaluated once
HashTable == [n \in TypeNames \cup CatalogueNames |-> binhash(n)]

\* obtain_id(name) and obtain_id<T>(): the hash of the (type) name
obtain_id(name) == HashTable[name]

\* the identifiers a caller passes to rename, erase and remove_type, to the
\* builder's emplace, and to offset and visit
MutateIds == {obtain_id(n) : n \in {Char, Pt, VecOf(Pt), NameA}}
FieldIds == {obtain_id(n) : n \in {Char, CharP, VecOf(Pt)}}
QueryIds == {obtain_id(n) : n \in {Char, CharP, Pt, NameA, VecOf(Char), VecOf(VecOf(Char)),
                                   VecOf(Pt)}}

(***************************************************************************)
(* errors                                                                  *)
(***************************************************************************)
NoError == "none"

(***************************************************************************)
(* context                                                                 *)
(***************************************************************************)
contains(s, id) == id \in DOMAIN s

INVALID_SIZE == -1

size(s, id) == IF id \notin DOMAIN s THEN INVALID_SIZE ELSE s[id].size

MapPut(s, id, rec) == [k \in DOMAIN s \cup {id} |-> IF k = id THEN rec ELSE s[k]]

MapDel(s, id) == [k \in DOMAIN s \ {id} |-> s[k]]

\* storage.emplace: no effect when the key is present
ctx_emplace(s, id, rec) == IF id \in DOMAIN s THEN s ELSE MapPut(s, id, rec)

\* a rename that makes a record for an identifier the registry does not hold
ctx_rename_creating(s, e, id, new_name) ==
    IF id \notin DOMAIN s
    THEN [storage |-> MapPut(s, id, [aggregate |-> FALSE, base_type |-> id, size |-> 0,
                                     name |-> new_name, fields |-> <<>>]),
          err |-> e]
    ELSE IF s[id].aggregate THEN [storage |-> s, err |-> "invalid_type"]
    ELSE [storage |-> [s EXCEPT ![id].name = new_name], err |-> e]

\* a rename that puts a fresh record of the new name in the place of the old
ctx_rename_resetting(s, e, id, new_name) ==
    IF id \notin DOMAIN s THEN [storage |-> s, err |-> "unregistered_id"]
    ELSE IF s[id].aggregate THEN [storage |-> s, err |-> "invalid_type"]
    ELSE [storage |-> [s EXCEPT ![id] = [aggregate |-> FALSE, base_type |-> id, size |-> 0,
                                         name |-> new_name, fields |-> <<>>]],
          err |-> e]

\* context::rename; the result is the pair (storage, err)
ctx_rename(s, e, id, new_name) ==
    IF id \notin DOMAIN s THEN [storage |-> s, err |-> "unregistered_id"]
    ELSE IF s[id].aggregate THEN [storage |-> s, err |-> "invalid_type"]
    ELSE [storage |-> [s EXCEPT ![id].name = new_name], err |-> e]

\* context::erase
ctx_erase(s, e, id) ==
    IF id \notin DOMAIN s THEN [storage |-> s, err |-> "unregistered_id"]
    ELSE IF s[id].aggregate THEN [storage |-> s, err |-> "invalid_type"]
    ELSE [storage |-> MapDel(s, id), err |-> e]

\* type_name(ctx, id): the empty name for an identifier that is not registered
type_name_of(s, id) == IF ~contains(s, id) THEN <<>> ELSE s[id].name

\* a lookup with operator[], which puts a default record under a missing key
indexing_access(s, id) ==
    IF id \in DOMAIN s THEN s
    ELSE MapPut(s, id, [aggregate |-> FALSE, base_type |-> id, size |-> 0,
                        name |-> <<>>, fields |-> <<>>])

\* what the lookups of the const accessors (storage.find, storage.at,
\* storage.contains) leave of the map
const_access(s, id) == s

\* base_type(ctx, id), for a registered id
base_type(s, id) == s[id].base_type

\* remove_type(ctx, id, err)
remove_type(s, e, id) ==
    IF ~contains(s, id) THEN [storage |-> s, err |-> "unregistered_id"]
    ELSE ctx_erase(s, e, id)

\* offset(ctx, id, field_idx, err): the pair (value, err); field_idx from 0
offset(s, e, id, field_idx) ==
    IF ~contains(s, id) THEN [value |-> 0, err |-> "unregistered_id"]
    ELSE IF field_idx >= Len(s[id].fields) THEN [value |-> 0, err |-> "invalid_argument"]
    ELSE [value |-> s[id].fields[field_idx + 1].offset, err |-> e]

(***************************************************************************)
(* type_declaration                                                        *)
(***************************************************************************)
\* no declaration object alive
NoDecl == [live |-> FALSE, aggregate |-> FALSE, size |-> 0, name |-> <<>>,
           id |-> HashSeed, fields |-> <<>>, packed |-> TRUE, erased |-> 0]

\* type_declaration(ctx, type_name, new_size); `packed` and `erased` are
\* history: the field list was filled by emplace calls without explicit
\* offset only, and the number of fields the builder has erased
type_declaration(type_name, new_size) ==
    [live |-> TRUE, aggregate |-> FALSE, size |-> new_size, name |-> type_name,
     id |-> obtain_id(type_name), fields |-> <<>>, packed |-> TRUE, erased |-> 0]

\* type_declaration(ctx, in_id, type_name), as add_type<T> builds it
type_declaration_id(in_id, type_name) ==
    [live |-> TRUE, aggregate |-> FALSE, size |-> 0, name |-> type_name,
     id |-> in_id, fields |-> <<>>, packed |-> TRUE, erased |-> 0]

field(new_name, new_id, new_offset) ==
    [offset |-> new_offset, id |-> new_id, name |-> new_name]

\* an offset that steps by the last field's offset alone, whatever its type
next_offset_unsized(s, fields) ==
    IF fields = <<>> THEN 0
    ELSE fields[Len(fields)].offset + 1

\* the offset an emplace without explicit offset computes
next_offset(s, fields) ==
    IF fields = <<>> THEN 0
    ELSE fields[Len(fields)].offset + size(s, fields[Len(fields)].id)

\* an emplace that does not look the field type up
emplace_unchecked(d, s, e, field_name, id) ==
    [decl |-> [d EXCEPT !.fields = Append(@, field(field_name, id, next_offset(s, d.fields)))],
     err |-> e]

\* type_declaration::emplace(field_name, id, err): the pair (decl, err)
emplace(d, s, e, field_name, id) ==
    IF ~contains(s, id) THEN [decl |-> d, err |-> "unregistered_id"]
    ELSE [decl |-> [d EXCEPT !.fields = Append(@, field(field_name, id, next_offset(s, d.fields)))],
          err |-> e]

\* type_declaration::emplace<T>(field_name, offset, err)
emplace_at(d, s, e, field_name, id, off) ==
    IF ~contains(s, id) THEN [decl |-> d, err |-> "unregistered_id"]
    ELSE [decl |-> [d EXCEPT !.fields = Append(@, field(field_name, id, off)),
                             !.packed = FALSE],
          err |-> e]

RemoveAt(seq, i) == SubSeq(seq, 1, i - 1) \o SubSeq(seq, i + 1, Len(seq))

\* binhash<std::uint32_t>: the low two limbs of the fold
binhash32(str) == <<binhash(str)[1], binhash(str)[2]>>

\* the index of the last field whose name has the same 32-bit hash
LastByHash(fields, field_name) ==
    LET hit == {i \in 1..Len(fields) : binhash32(fields[i].name) = binhash32(field_name)}
    IN  IF hit = {} THEN 0 ELSE CHOOSE i \in hit : \A j \in hit : i >= j

\* field_erase(const char* field_name): index of the first field whose
\* name has the same 32-bit hash, 0 when there is none
FirstByHash(fields, field_name) ==
    LET hit == {i \in 1..Len(fields) : binhash32(fields[i].name) = binhash32(field_name)}
    IN  IF hit = {} THEN 0 ELSE CHOOSE i \in hit : \A j \in hit : i <= j

\* type_declaration::erase(const char* field_name, err)
decl_erase_name(d, e, field_name) ==
    LET i == FirstByHash(d.fields, field_name)
    IN  IF i = 0 THEN [decl |-> d, err |-> "invalid_argument"]
        ELSE [decl |-> [d EXCEPT !.fields = RemoveAt(@, i), !.packed = FALSE,
                                 !.erased = @ + 1],
              err |-> e]

\* type_declaration::erase(std::size_t idx, err); idx from 0
decl_erase_idx(d, e, idx) ==
    IF idx >= Len(d.fields) THEN [decl |-> d, err |-> "invalid_argument"]
    ELSE [decl |-> [d EXCEPT !.fields = RemoveAt(@, idx + 1), !.packed = FALSE,
                             !.erased = @ + 1],
          err |-> e]

(***************************************************************************)
(* registration                                                            *)
(***************************************************************************)
type_context(d, base) ==
    [aggregate |-> d.aggregate, base_type |-> base, size |-> d.size,
     name |-> d.name, fields |-> d.fields]

\* a registration that replaces the record of an identifier already present
add_type_replacing(s, e, d, base) ==
    [storage |-> MapPut(s, d.id, type_context(d, base)),
     err |-> IF contains(s, d.id) THEN "already_registered" ELSE e]

\* add_type(ctx, type, base_type, err)
add_type_base(s, e, d, base) ==
    IF contains(s, d.id) THEN [storage |-> s, err |-> "already_registered"]
    ELSE [storage |-> ctx_emplace(s, d.id, type_context(d, base)), err |-> e]

\* add_type(ctx, type, err): the record's base type is its own identifier
add_type(s, e, d) == add_type_base(s, e, d, d.id)

\* add_type<BaseType>(ctx, type, err)
add_type_as(s, e, d, BaseType) == add_type_base(s, e, d, obtain_id(BaseType))

\* the visit_struct::for_each lambda of add_type<T>, from field i on:
\* emplace<field type>(name, offset, err); if (err) return; size += sizeof
RECURSIVE enum_fields(_, _, _, _, _)
enum_fields(d, s, e, nf, i) ==
    IF i > Len(nf) THEN [decl |-> d, err |-> e]
    ELSE LET r == emplace_at(d, s, e, nf[i].name, obtain_id(nf[i].type), nf[i].offset)
             d2 == IF r.err # NoError THEN r.decl
                   ELSE [r.decl EXCEPT !.size = @ + sizeof(nf[i].type)]
         IN  enum_fields(d2, s, r.err, nf, i + 1)

\* add_type<T>(ctx, err)
add_type_T(s, e, T) ==
    LET new_type == type_declaration_id(obtain_id(T), T)
        filled == IF is_aggregate(T)
                  THEN enum_fields(new_type, s, e, NativeFields(T), 1)
                  ELSE [decl |-> [new_type EXCEPT !.size = sizeof(T)], err |-> e]
        r1 == add_type(s, filled.err, [filled.decl EXCEPT !.aggregate = is_aggregate(T)])
        r2 == add_type_as(r1.storage, r1.err,
                          type_declaration(VecOf(T), sizeof(VecOf(T))), VecOf(T))
        r3 == add_type_as(r2.storage, r2.err,
                          type_declaration(VecOf(VecOf(T)), sizeof(VecOf(VecOf(T)))),
                          VecOf(VecOf(T)))
    IN  IF r1.err # NoError THEN r1
        ELSE IF r2.err # NoError THEN r2
        ELSE r3

\* detail::add_types<Types...>(ctx, err): the fold over the pack
RECURSIVE add_types(_, _, _, _)
add_types(s, e, types, i) ==
    IF i > Len(types) THEN [storage |-> s, err |-> e]
    ELSE LET r == add_type_T(s, e, types[i])
         IN  add_types(r.storage, r.err, types, i + 1)

EmptyStorage == [k \in {} |-> 0]

\* make_context(err)
make_context(e) == add_types(EmptyStorage, e, GRR_TYPES, 1)

(***************************************************************************)
(* visitation engine                                                       *)
(*                                                                         *)
(* A handler has one of four shapes: 1 bool(value), 2 bool(value, name),   *)
(* 3 void(value), 4 void(value, name).  `answers` is what a boolean        *)
(* handler returns at its 1st, 2nd, ... invocation (true after that).  A   *)
(* visit yields the sequence of handler invocations and the error code.    *)
(***************************************************************************)
NoName == <<>>

TakesName(shape) == shape \in {2, 4}

ReturnsBool(shape) == shape \in {1, 2}

\* what the n-th invocation of the handler makes call_function return
call_result(shape, answers, n) ==
    IF ~ReturnsBool(shape) THEN TRUE
    ELSE IF n <= Len(answers) THEN answers[n]
    ELSE TRUE

\* a cast that drops the constness of the data pointer
cast_mutable(data_const) == FALSE

\* constness of the pointer visit_static casts to, from the constness of
\* the data pointer (if constexpr (std::is_const_v<CleanDataType>))
cast_const(data_const) == data_const

\* an invocation with a concretely typed reference, by visit_static
typed_call(T, ptr, data_const, name, shape, fidx) ==
    [kind |-> "typed", type |-> T, id |-> obtain_id(T), size |-> sizeof(T),
     addr |-> ptr, const |-> cast_const(data_const),
     name |-> IF TakesName(shape) THEN name ELSE NoName, field |-> fidx]

\* the name the erased-tuple call_function of detail::visit passes
erased_name == Var0

\* an invocation with the erased (size, (pointer, type id)) tuple
erased_call(ptr, data_const, id, sz, shape, fidx) ==
    [kind |-> "erased", type |-> <<>>, id |-> id, size |-> sz,
     addr |-> ptr, const |-> data_const,
     name |-> IF TakesName(shape) THEN erased_name ELSE NoName, field |-> fidx]

\* the six comparisons visit_static<T> makes, in order: the identifier
\* compared with, and the type the data is cast to when it is equal
static_branches(T) ==
    << [match |-> T,                      as |-> T],
       [match |-> VecOf(VecOf(T)),        as |-> VecOf(T)],
       [match |-> VecOf(T),               as |-> VecOf(VecOf(T))],
       [match |-> PtrOf(T),               as |-> PtrOf(T)],
       [match |-> VecOf(VecOf(PtrOf(T))), as |-> VecOf(PtrOf(T))],
       [match |-> VecOf(PtrOf(T)),        as |-> VecOf(VecOf(PtrOf(T)))] >>

\* visit_static<T>(data, id, name, called, func), from comparison b on;
\* st = [called, calls]
RECURSIVE visit_static_T(_, _, _, _, _, _, _, _, _, _)
visit_static_T(T, b, ptr, data_const, id, name, st, shape, answers, fidx) ==
    IF b > Len(static_branches(T)) \/ st.called THEN st
    ELSE LET br == static_branches(T)[b]
             st2 == IF id = obtain_id(br.match)
                    THEN [called |-> call_result(shape, answers, Len(st.calls) + 1),
                          calls |-> Append(st.calls,
                                           typed_call(br.as, ptr, data_const, name, shape, fidx))]
                    ELSE st
         IN  visit_static_T(T, b + 1, ptr, data_const, id, name, st2, shape, answers, fidx)

\* visit_static<Types...>: the fold over the catalogue, from type t on
RECURSIVE visit_static(_, _, _, _, _, _, _, _, _)
visit_static(t, ptr, data_const, id, name, st, shape, answers, fidx) ==
    IF t > Len(GRR_TYPES) THEN st
    ELSE visit_static(t + 1, ptr, data_const, id, name,
                      visit_static_T(GRR_TYPES[t], 1, ptr, data_const, id, name,
                                     st, shape, answers, fidx),
                      shape, answers, fidx)

\* the leaf branch of detail::visit
visit_leaf(s, data, data_const, id, e, shape, answers) ==
    LET st == visit_static(1, data, data_const, id, Var,
                           [called |-> FALSE, calls |-> <<>>], shape, answers, 0)
        calls2 == Append(st.calls, erased_call(data, data_const, id, s[id].size, shape, 0))
    IN  IF ~st.called THEN [calls |-> st.calls, err |-> e]
        ELSE IF ~contains(s, id) THEN [calls |-> st.calls, err |-> "unregistered_id"]
        ELSE IF ~call_result(shape, answers, Len(calls2))
             THEN [calls |-> calls2, err |-> "invalid_argument"]
        ELSE [calls |-> calls2, err |-> e]

\* the field loop of detail::visit (recursion_level = 0), from field i on
RECURSIVE visit_fields(_, _, _, _, _, _, _, _, _)
visit_fields(s, data, data_const, fields, i, calls, e, shape, answers) ==
    IF i > Len(fields) THEN [calls |-> calls, err |-> e]
    ELSE LET cfield == fields[i]
             field_ptr == data + cfield.offset
             st == visit_static(1, field_ptr, data_const, cfield.id, cfield.name,
                                [called |-> FALSE, calls |-> calls], shape, answers, i)
         IN  IF st.called
             THEN visit_fields(s, data, data_const, fields, i + 1, st.calls, e, shape, answers)
             ELSE IF ~contains(s, cfield.id)
             THEN [calls |-> st.calls, err |-> "unregistered_id"]
             ELSE LET calls2 == Append(st.calls,
                                       erased_call(field_ptr, data_const, cfield.id,
                                                   s[cfield.id].size, shape, i))
                  IN  IF ~call_result(shape, answers, Len(calls2))
                      THEN [calls |-> calls2, err |-> "invalid_argument"]
                      ELSE visit_fields(s, data, data_const, fields, i + 1, calls2, e,
                                        shape, answers)

\* detail::visit; no type of the default GRR_TYPES is reflectable, so
\* visit_static_reflectable matches nothing
detail_visit(s, data, data_const, id, e, shape, answers) ==
    IF s[id].fields = <<>>
    THEN visit_leaf(s, data, data_const, id, e, shape, answers)
    ELSE visit_fields(s, data, data_const, s[id].fields, 1, <<>>, e, shape, answers)

\* a visit that hands an identifier the registry does not hold to the static
\* dispatch
visit_unguarded(s, data, data_const, id, e, shape, answers) ==
    IF ~contains(s, id)
    THEN [calls |-> visit_static(1, data, data_const, id, Var,
                                 [called |-> FALSE, calls |-> <<>>], shape, answers, 0).calls,
          err |-> e]
    ELSE detail_visit(s, data, data_const, id, e, shape, answers)

\* visit(ctx, data, id, err, func)
visit(s, data, data_const, id, e, shape, answers) ==
    IF ~contains(s, id) THEN [calls |-> <<>>, err |-> "unregistered_id"]
    ELSE detail_visit(s, data, data_const, id, e, shape, answers)

\* the pfr::for_each_field lambda of visit<T>, from the static field i on
\* (index = i - 1); info is the record of T in the registry
RECURSIVE visit_T_fields(_, _, _, _, _, _)
visit_T_fields(info, nf, i, e, calls, shape) ==
    IF i > Len(nf) THEN [calls |-> calls, err |-> e]
    ELSE IF e # NoError \/ i - 1 >= Len(info.fields)
    THEN visit_T_fields(info, nf, i + 1, "invalid_ordering", calls, shape)
    ELSE IF obtain_id(nf[i].type) # info.fields[i].id
    THEN visit_T_fields(info, nf, i + 1, "invalid_type", calls, shape)
    ELSE visit_T_fields(info, nf, i + 1, e,
                        Append(calls, [field |-> i, type |-> nf[i].type,
                                       name |-> IF TakesName(shape)
                                                THEN info.fields[i].name ELSE NoName]),
                        shape)

\* visit<T>(ctx, data, err, func)
visit_T(s, e, T, shape) ==
    IF ~contains(s, obtain_id(T)) THEN [calls |-> <<>>, err |-> "unregistered_id"]
    ELSE IF s[obtain_id(T)].fields = <<>> THEN [calls |-> <<>>, err |-> "invalid_type"]
    ELSE IF is_aggregate(T)
    THEN visit_T_fields(s[obtain_id(T)], NativeFields(T), 1, e, <<>>, shape)
    ELSE [calls |-> <<>>, err |-> "invalid_type"]

\* visit<recursion_level>: whether the program that holds the call can be
\* built.  With recursion_level > 0 the field loop of detail::visit holds the
\* call visit<recursion_level - 1>(ctx, field_ptr, field_id), and no visit
\* takes a context, a pointer and an identifier without a handler: the
\* instantiation is ill-formed.  With recursion_level = 0 the call is in the
\* discarded branch of the if constexpr.
instantiable(recursion_level) == recursion_level = 0

\* visit<recursion_level>(ctx, data, id, err, func)
visit_level(recursion_level, s, data, data_const, id, e, shape, answers) ==
    IF instantiable(recursion_level)
    THEN LET v == visit(s, data, data_const, id, e, shape, answers)
         IN  [built |-> TRUE, calls |-> v.calls, err |-> v.err]
    ELSE [built |-> FALSE, calls |-> <<>>, err |-> e]

(***************************************************************************)
(* construct and destruct: a visit whose handler placement-constructs      *)
(* (destroys) what it is handed, unless that is the erased tuple.          *)
(***************************************************************************)
\* the handler of construct and destruct takes the field only and returns
\* nothing: [](auto& field)
ConstructShape == 3

\* is_fallback_type_v<CleanType> of an invocation: the erased tuple
is_fallback_type(c) == c.kind = "erased"

\* the objects the handler constructs (destroys) over the invocations from
\* the n-th on: grr::construct<CleanType>(&field), an object of the type the
\* reference has, at the address it has
RECURSIVE handled(_, _)
handled(calls, n) ==
    IF n > Len(calls) THEN <<>>
    ELSE LET c == calls[n]
         IN  IF is_fallback_type(c) THEN handled(calls, n + 1)
             ELSE <<[type |-> c.type, id |-> c.id, addr |-> c.addr, field |-> c.field]>>
                      \o handled(calls, n + 1)

\* a construct that undoes what it constructed when the visit fails
construct_rolling_back(s, memory, id, e) ==
    LET v == visit(s, memory, FALSE, id, e, ConstructShape, <<>>)
    IN  [made |-> IF v.err = e THEN handled(v.calls, 1) ELSE <<>>, err |-> v.err]

\* construct(ctx, memory_to_construct, id, err)
construct(s, memory, id, e) ==
    LET v == visit(s, memory, FALSE, id, e, ConstructShape, <<>>)
    IN  [made |-> handled(v.calls, 1), err |-> v.err]

\* destruct(ctx, memory_to_destruct, id, err)
destruct(s, memory, id, e) ==
    LET v == visit(s, memory, FALSE, id, e, ConstructShape, <<>>)
    IN  [made |-> handled(v.calls, 1), err |-> v.err]

(***************************************************************************)
(* The state machine.  storage: the registry of the context; decl: the     *)
(* caller's type_declaration; ndecl: the number of type_declaration        *)
(* objects made so far; err: the caller's std::error_code after the call   *)
(* just made; last: that call, its arguments and what it returned          *)
(* (history, read by the properties only).                                 *)
(*                                                                         *)
(* No operation clears the error code it is handed.  The caller hands      *)
(* every call a fresh one, except add_type<T> and make_context, the        *)
(* operations that read it: they may also be handed one that an earlier    *)
(* failed call left set (a lookup of an identifier that is not registered  *)
(* leaves unregistered_id in any state of the registry).                   *)
(***************************************************************************)
\* between two calls
Idle == [op |-> "idle"]

\* the error code on entry of a call that reads it
ErrIn == {NoError, "unregistered_id"}

Init ==
    /\ storage = EmptyStorage
    /\ decl = NoDecl
    /\ ndecl = 0
    /\ err = NoError
    /\ last = Idle

MakeContextE(E) ==
    \E e \in E :
        LET r == make_context(e)
        IN  /\ storage' = r.storage
            /\ err' = r.err
            /\ last' = [op |-> "make_context", errIn |-> e]
            /\ UNCHANGED <<decl, ndecl>>

AddTypeTE(E) ==
    \E T \in NativeTypes, e \in E :
        LET r == add_type_T(storage, e, T)
        IN  /\ storage' = r.storage
            /\ err' = r.err
            /\ last' = [op |-> "add_type_T", id |-> obtain_id(T), errIn |-> e]
            /\ UNCHANGED <<decl, ndecl>>

NewDeclarationOf(names, sizes) ==
    \E n \in names, sz \in sizes :
        /\ ndecl < MaxDecls
        /\ ndecl' = ndecl + 1
        /\ decl' = type_declaration(n, sz)
        /\ err' = NoError
        /\ last' = [op |-> "type_declaration"]
        /\ UNCHANGED storage

EmplaceWith(names, ids, max) ==
    \E fname \in names, id \in ids :
        LET r == emplace(decl, storage, NoError, fname, id)
        IN  /\ decl.live
            /\ Len(decl.fields) < max
            /\ decl' = r.decl
            /\ err' = r.err
            /\ last' = [op |-> "emplace", id |-> id, name |-> fname]
            /\ UNCHANGED <<storage, ndecl>>

EmplaceOf(names, max) == EmplaceWith(names, FieldIds, max)

EmplaceAt ==
    \E fname \in FieldNames, id \in FieldIds, off \in ExplicitOffsets :
        LET r == emplace_at(decl, storage, NoError, fname, id, off)
        IN  /\ decl.live
            /\ Len(decl.fields) < MaxFields
            /\ decl' = r.decl
            /\ err' = r.err
            /\ last' = [op |-> "emplace_at", id |-> id, name |-> fname, offset |-> off]
            /\ UNCHANGED <<storage, ndecl>>

DeclEraseIdx ==
    \E idx \in 0..MaxFields :
        LET r == decl_erase_idx(decl, NoError, idx)
        IN  /\ decl.live
            /\ decl.erased < MaxErases
            /\ decl' = r.decl
            /\ err' = r.err
            /\ last' = [op |-> "decl_erase_idx", idx |-> idx]
            /\ UNCHANGED <<storage, ndecl>>

DeclEraseName ==
    \E fname \in FieldNames :
        LET r == decl_erase_name(decl, NoError, fname)
        IN  /\ decl.live
            /\ decl.erased < MaxErases
            /\ decl' = r.decl
            /\ err' = r.err
            /\ last' = [op |-> "decl_erase_name", name |-> fname]
            /\ UNCHANGED <<storage, ndecl>>

\* add_type(ctx, decl, err); the caller lets a declaration it has committed
\* go out of scope
AddType ==
    LET r == add_type(storage, NoError, decl)
    IN  /\ decl.live
        /\ storage' = r.storage
        /\ err' = r.err
        /\ last' = [op |-> "add_type", id |-> decl.id]
        /\ decl' = IF r.err = NoError THEN NoDecl ELSE decl
        /\ UNCHANGED ndecl

Rename ==
    \E id \in MutateIds, n \in NewNames :
        LET r == ctx_rename(storage, NoError, id, n)
        IN  /\ storage' = r.storage
            /\ err' = r.err
            /\ last' = [op |-> "rename", id |-> id, new_name |-> n]
            /\ UNCHANGED <<decl, ndecl>>

Erase ==
    \E id \in MutateIds :
        LET r == ctx_erase(storage, NoError, id)
        IN  /\ storage' = r.storage
            /\ err' = r.err
            /\ last' = [op |-> "erase", id |-> id]
            /\ UNCHANGED <<decl, ndecl>>

RemoveType ==
    \E id \in MutateIds :
        LET r == remove_type(storage, NoError, id)
        IN  /\ storage' = r.storage
            /\ err' = r.err
            /\ last' = [op |-> "remove_type", id |-> id]
            /\ UNCHANGED <<decl, ndecl>>

Offset ==
    \E id \in QueryIds, idx \in 0..MaxFields :
        LET r == offset(storage, NoError, id, idx)
        IN  /\ err' = r.err
            /\ last' = [op |-> "offset", id |-> id, idx |-> idx, value |-> r.value]
            /\ UNCHANGED <<storage, decl, ndecl>>

DataAddrs == {64}

Answers(shape) ==
    IF ReturnsBool(shape) THEN [1..MaxAnswers -> BOOLEAN] ELSE {<<>>}

Visit ==
    \E id \in QueryIds, data \in DataAddrs, data_const \in BOOLEAN, shape \in 1..4 :
        \E answers \in Answers(shape) :
            LET r == visit(storage, data, data_const, id, NoError, shape, answers)
            IN  /\ err' = r.err
                /\ last' = [op |-> "visit", id |-> id, data |-> data,
                            const |-> data_const, shape |-> shape, answers |-> answers,
                            calls |-> r.calls]
                /\ UNCHANGED <<storage, decl, ndecl>>

\* the caller has looked at what the call returned and goes on to its next
\* call
Continue ==
    /\ last # Idle
    /\ last' = Idle
    /\ err' = NoError
    /\ UNCHANGED <<storage, decl, ndecl>>

(***************************************************************************)
(* Spec: registration, the builder, rename and erase.                      *)
(***************************************************************************)
MakeContext == last = Idle /\ MakeContextE(ErrIn)
AddTypeT == last = Idle /\ AddTypeTE(ErrIn)
NewDeclaration == last = Idle /\ NewDeclarationOf(DeclNames, DeclSizes)
EmplaceField == last = Idle /\ EmplaceOf({FieldA}, MaxFields)
CommitType == last = Idle /\ AddType
RenameType == last = Idle /\ Rename
EraseType == last = Idle /\ (Erase \/ RemoveType)
OffsetOf == last = Idle /\ Offset

Next ==
    \/ MakeContext
    \/ AddTypeT
    \/ NewDeclaration
    \/ EmplaceField
    \/ CommitType
    \/ RenameType
    \/ EraseType
    \/ OffsetOf
    \/ Continue

Spec == Init /\ [][Next]_vars

(***************************************************************************)
(* SpecVisit: visits of the registries that registration with a fresh      *)
(* error code, the builder and erase make.                                 *)
(***************************************************************************)
VMakeContext == last = Idle /\ MakeContextE({NoError})
VAddTypeT == last = Idle /\ AddTypeTE({NoError})
VNewDeclaration == last = Idle /\ NewDeclarationOf({NameA}, {0})
VEmplaceField == last = Idle /\ EmplaceOf({FieldA}, MaxVisitFields)
VVisit == last = Idle /\ Visit

NextVisit ==
    \/ VMakeContext
    \/ VAddTypeT
    \/ VNewDeclaration
    \/ VEmplaceField
    \/ CommitType
    \/ EraseType
    \/ VVisit
    \/ Continue

SpecVisit == Init /\ [][NextVisit]_vars

(***************************************************************************)
(* SpecDecl: the builder, every emplace and erase of it, over the          *)
(* registries make_context and erase make.                                 *)
(***************************************************************************)
DEmplaceField == last = Idle /\ EmplaceOf(FieldNames, MaxFields)
DEmplaceAt == last = Idle /\ EmplaceAt
DEraseIdx == last = Idle /\ DeclEraseIdx
DEraseName == last = Idle /\ DeclEraseName

NextDecl ==
    \/ VMakeContext
    \/ VNewDeclaration
    \/ DEmplaceField
    \/ DEmplaceAt
    \/ DEraseIdx
    \/ DEraseName
    \/ EraseType
    \/ Continue

SpecDecl == Init /\ [][NextDecl]_vars

(***************************************************************************)
(* SpecConstruct: construct and destruct of registered types whose fields  *)
(* are a catalogue type, a vector of one, and a type outside of it.        *)
(***************************************************************************)
ConstructFieldIds == {obtain_id(n) : n \in {Char, VecOf(Char), VecOf(Pt)}}
ConstructIds == {obtain_id(n) : n \in {Char, Pt, NameA}}

Construct ==
    \E id \in ConstructIds, memory \in DataAddrs :
        LET r == construct(storage, memory, id, NoError)
        IN  /\ last = Idle
            /\ err' = r.err
            /\ last' = [op |-> "construct", id |-> id, data |-> memory, made |-> r.made]
            /\ UNCHANGED <<storage, decl, ndecl>>

Destruct ==
    \E id \in ConstructIds, memory \in DataAddrs :
        LET r == destruct(storage, memory, id, NoError)
        IN  /\ last = Idle
            /\ err' = r.err
            /\ last' = [op |-> "destruct", id |-> id, data |-> memory, made |-> r.made]
            /\ UNCHANGED <<storage, decl, ndecl>>

CEmplaceField == last = Idle /\ EmplaceWith({FieldA}, ConstructFieldIds, MaxVisitFields)

NextConstruct ==
    \/ VMakeContext
    \/ VAddTypeT
    \/ VNewDeclaration
    \/ CEmplaceField
    \/ CommitType
    \/ EraseType
    \/ Construct
    \/ Destruct
    \/ Continue

SpecConstruct == Init /\ [][NextConstruct]_vars

(***************************************************************************)
(* SpecBudget: visit<recursion_level> on registries in which a type may    *)
(* name itself as the type of a field ("char" erased and registered again  *)
(* from a declaration that has a field of type char).                      *)
(***************************************************************************)
BudgetIds == {obtain_id(n) : n \in {Char, NameA}}

VisitLevel ==
    \E recursion_level \in 0..MaxBudget, id \in BudgetIds, data \in DataAddrs,
       shape \in {1, 3} :
        \E answers \in Answers(shape) :
            LET r == visit_level(recursion_level, storage, data, FALSE, id, NoError,
                                 shape, answers)
            IN  /\ last = Idle
                /\ err' = r.err
                /\ last' = [op |-> "visit_level", level |-> recursion_level, id |-> id,
                            data |-> data, shape |-> shape, answers |-> answers,
                            built |-> r.built, calls |-> r.calls]
                /\ UNCHANGED <<storage, decl, ndecl>>

BNewDeclaration == last = Idle /\ NewDeclarationOf({Char, NameA}, {0})
BEmplaceField == last = Idle /\ EmplaceWith({FieldA}, BudgetIds, MaxVisitFields)

NextBudget ==
    \/ VMakeContext
    \/ BNewDeclaration
    \/ BEmplaceField
    \/ CommitType
    \/ EraseType
    \/ VisitLevel
    \/ Continue

SpecBudget == Init /\ [][NextBudget]_vars

(***************************************************************************)
(* SpecRead: several readers call the read-only operations on one context. *)
(* A call begins and ends in separate steps, so calls of different readers *)
(* overlap; the registry is mutated only while no read is in flight.  Each *)
(* reader has its own std::error_code, kept with its call.                 *)
(***************************************************************************)
Readers == {1, 2}
ReadIds == {obtain_id(n) : n \in {Char, NameA}}
ReadOps == {"contains", "size", "offset", "type_name", "visit", "construct", "destruct"}

\* the calls a reader makes: the operation, the identifier, the field index
ReadCalls ==
    {[op |-> o, id |-> id, idx |-> 0] : o \in ReadOps, id \in ReadIds}
        \cup {[op |-> "offset", id |-> id, idx |-> 1] : id \in ReadIds}

\* what a call returns on the registry s, with the reader's error code
read_result(s, c) ==
    CASE c.op = "contains" -> [value |-> contains(s, c.id), err |-> NoError]
      [] c.op = "size" -> [value |-> size(s, c.id), err |-> NoError]
      [] c.op = "offset" -> offset(s, NoError, c.id, c.idx)
      [] c.op = "type_name" -> [value |-> type_name_of(s, c.id), err |-> NoError]
      [] c.op = "visit" ->
            LET v == visit(s, 64, TRUE, c.id, NoError, 4, <<>>)
            IN  [value |-> v.calls, err |-> v.err]
      [] c.op = "construct" ->
            LET v == construct(s, 64, c.id, NoError)
            IN  [value |-> v.made, err |-> v.err]
      [] c.op = "destruct" ->
            LET v == destruct(s, 64, c.id, NoError)
            IN  [value |-> v.made, err |-> v.err]

NoCall == [phase |-> "none"]

Reading(calls) == [op |-> "reading", calls |-> calls]

\* a reader enters a call
ReadBegin ==
    \E r \in Readers, c \in ReadCalls :
        LET calls == IF last = Idle THEN [q \in Readers |-> NoCall] ELSE last.calls
        IN  /\ last = Idle \/ last.op = "reading"
            /\ calls[r].phase = "none"
            /\ last' = Reading([calls EXCEPT ![r] =
                                   [phase |-> "begun", call |-> c,
                                    alone |-> read_result(storage, c)]])
            /\ UNCHANGED <<storage, decl, ndecl, err>>

\* the call of a reader does its lookups and returns
ReadEnd ==
    \E r \in Readers :
        /\ last # Idle
        /\ last.op = "reading"
        /\ last.calls[r].phase = "begun"
        /\ storage' = const_access(storage, last.calls[r].call.id)
        /\ last' = Reading([last.calls EXCEPT ![r] =
                               [phase |-> "done", call |-> @.call, alone |-> @.alone,
                                result |-> read_result(storage, @.call)]])
        /\ UNCHANGED <<decl, ndecl, err>>

\* every reader is back: the context may be mutated again
ReadReturn ==
    /\ last # Idle
    /\ last.op = "reading"
    /\ \A r \in Readers : last.calls[r].phase # "begun"
    /\ last' = Idle
    /\ UNCHANGED <<storage, decl, ndecl, err>>

RContinue == last.op # "reading" /\ Continue
REmplaceField == last = Idle /\ EmplaceWith({FieldA}, {obtain_id(Char)}, MaxVisitFields)

NextRead ==
    \/ VMakeContext
    \/ VNewDeclaration
    \/ REmplaceField
    \/ CommitType
    \/ EraseType
    \/ ReadBegin
    \/ ReadEnd
    \/ ReadReturn
    \/ RContinue

SpecRead == Init /\ [][NextRead]_vars

(***************************************************************************)
(* SpecTyped: visit<T> of the reflected struct pt on registries that hold  *)
(* under the identifier of pt the record add_type<pt> makes or a record    *)
(* the builder made under the name "pt".                                   *)
(***************************************************************************)
VisitT ==
    \E T \in NativeTypes, shape \in 1..4 :
        LET r == visit_T(storage, NoError, T, shape)
        IN  /\ last = Idle
            /\ err' = r.err
            /\ last' = [op |-> "visit_T", type |-> T, id |-> obtain_id(T), shape |-> shape,
                        calls |-> r.calls]
            /\ UNCHANGED <<storage, decl, ndecl>>

TNewDeclaration == last = Idle /\ NewDeclarationOf({Pt}, {0})
TEmplaceField ==
    last = Idle /\ EmplaceWith({FieldA}, {obtain_id(Char), obtain_id(CharP)}, MaxVisitFields)

NextTyped ==
    \/ VMakeContext
    \/ VAddTypeT
    \/ TNewDeclaration
    \/ TEmplaceField
    \/ CommitType
    \/ VisitT
    \/ Continue

SpecTyped == Init /\ [][NextTyped]_vars

(***************************************************************************)
(* SpecHash: binhash applied to byte strings, on a build where char is     *)
(* signed and on one where it is unsigned.                                 *)
(***************************************************************************)
\* the bytes of the hashed strings: two below 128, two above
HashBytes == {65, 97, 195, 255}

ByteStrings == UNION {[1..n -> HashBytes] : n \in 0..MaxNameLen}

Binhash ==
    \E str \in ByteStrings, char_signed \in BOOLEAN :
        /\ last = Idle
        /\ last' = [op |-> "binhash", str |-> str, char_signed |-> char_signed,
                    view |-> binhash_view(char_signed, str),
                    ptr |-> binhash_ptr(char_signed, str, Len(str))]
        /\ UNCHANGED <<storage, decl, ndecl, err>>

\* the decoration compilers put into type names: "struct ", "class ", "__cxx11::"
Decorations ==
    { <<115, 116, 114, 117, 99, 116, 32>>,
      <<99, 108, 97, 115, 115, 32>>,
      <<95, 95, 99, 120, 120, 49, 49, 58, 58>> }

\* what stands before the decoration in a name: nothing or "std::"
NamePrefixes == { <<>>, <<115, 116, 100, 58, 58>> }

\* obtain_id(name), which is binhash<typeid_t>(name), of a name and of the
\* same name with a decoration in it
ObtainId ==
    \E pre \in NamePrefixes, d \in Decorations, n \in {NameA, NameN, Pt, Char} :
        /\ last = Idle
        /\ last' = [op |-> "obtain_id", name |-> pre \o n, decorated |-> pre \o d \o n,
                    id |-> binhash(pre \o n),
                    decorated_id |-> binhash(pre \o d \o n)]
        /\ UNCHANGED <<storage, decl, ndecl, err>>

\* obtain_id(const char*) and obtain_id(const string_view&) of grr_types.hpp
\* on the same name
TypesObtainId ==
    \E str \in ByteStrings, char_signed \in BOOLEAN :
        /\ last = Idle
        /\ last' = [op |-> "types_obtain_id", str |-> str, char_signed |-> char_signed,
                    cstr |-> types_binhash_cstr(char_signed, str, 1),
                    view |-> types_binhash_view(char_signed, str)]
        /\ UNCHANGED <<storage, decl, ndecl, err>>

NextHash ==
    \/ Binhash
    \/ ObtainId
    \/ TypesObtainId
    \/ Continue

SpecHash == Init /\ [][NextHash]_vars

(***************************************************************************)
(* The legacy calling layer of grr_base_exc.hpp: overloads without the     *)
(* std::error_code parameter.  Each makes a local error code, calls the    *)
(* error-code overload and returns; the file holds no throw statement.     *)
(* The result of a legacy call is (storage, code, thrown): the registry,   *)
(* the value of the local error code when the overload returns, and the    *)
(* exception that leaves the overload (NoError: none).                     *)
(***************************************************************************)
\* add_type(current_context, type)
exc_add_type(s, d) ==
    LET r == add_type(s, NoError, d)
    IN  [storage |-> r.storage, code |-> r.err, thrown |-> NoError]

\* add_type<T>(current_context)
exc_add_type_T(s, T) ==
    LET r == add_type_T(s, NoError, T)
    IN  [storage |-> r.storage, code |-> r.err, thrown |-> NoError]

\* make_context(): the empty context when the local error code is set
exc_make_context ==
    LET r == make_context(NoError)
    IN  [storage |-> IF r.err # NoError THEN EmptyStorage ELSE r.storage,
         code |-> r.err, thrown |-> NoError]

\* offset(current_context, id, field_idx): 0 when the local error code is
\* set; otherwise control flows off the end of a function returning
\* std::size_t, and the value the caller reads is whatever the build
\* leaves there: the set of the values it may read
exc_offset_values(s, id, field_idx) ==
    LET r == offset(s, NoError, id, field_idx)
    IN  IF r.err # NoError THEN {0} ELSE {r.value, 0, INVALID_SIZE}

\* visit(context, data, id, func)
exc_visit(s, data, data_const, id, shape, answers) ==
    LET r == visit(s, data, data_const, id, NoError, shape, answers)
    IN  [calls |-> r.calls, code |-> r.err, thrown |-> NoError]

LegacyMakeContext ==
    \E r \in {exc_make_context} :
        /\ last = Idle
        /\ storage' = r.storage
        /\ err' = NoError
        /\ last' = [op |-> "exc_make_context", code |-> r.code, thrown |-> r.thrown]
        /\ UNCHANGED <<decl, ndecl>>

LegacyAddType ==
    LET r == exc_add_type(storage, decl)
    IN  /\ last = Idle
        /\ decl.live
        /\ storage' = r.storage
        /\ err' = NoError
        /\ last' = [op |-> "exc_add_type", id |-> decl.id, code |-> r.code,
                    thrown |-> r.thrown]
        /\ decl' = IF r.code = NoError THEN NoDecl ELSE decl
        /\ UNCHANGED ndecl

LegacyAddTypeT ==
    \E T \in NativeTypes :
        LET r == exc_add_type_T(storage, T)
        IN  /\ last = Idle
            /\ storage' = r.storage
            /\ err' = NoError
            /\ last' = [op |-> "exc_add_type_T", id |-> obtain_id(T), code |-> r.code,
                        thrown |-> r.thrown]
            /\ UNCHANGED <<decl, ndecl>>

LegacyOffset ==
    \E id \in QueryIds, idx \in 0..MaxVisitFields :
        \E v \in exc_offset_values(storage, id, idx) :
            /\ last = Idle
            /\ err' = NoError
            /\ last' = [op |-> "exc_offset", id |-> id, idx |-> idx, value |-> v,
                        code |-> offset(storage, NoError, id, idx).err,
                        thrown |-> NoError]
            /\ UNCHANGED <<storage, decl, ndecl>>

\* the identifiers and the handler shapes of the legacy visits
LegacyVisitIds == {obtain_id(n) : n \in {Char, Pt, NameA}}
LegacyShapes == {1, 4}

LegacyVisit ==
    \E id \in LegacyVisitIds, data \in DataAddrs, data_const \in BOOLEAN,
       shape \in LegacyShapes :
        \E answers \in Answers(shape) :
            LET r == exc_visit(storage, data, data_const, id, shape, answers)
            IN  /\ last = Idle
                /\ err' = NoError
                /\ last' = [op |-> "exc_visit", id |-> id, data |-> data,
                            const |-> data_const, shape |-> shape, answers |-> answers,
                            calls |-> r.calls, code |-> r.code, thrown |-> r.thrown]
                /\ UNCHANGED <<storage, decl, ndecl>>

NextLegacy ==
    \/ LegacyMakeContext
    \/ LegacyAddTypeT
    \/ VNewDeclaration
    \/ VEmplaceField
    \/ LegacyAddType
    \/ LegacyOffset
    \/ LegacyVisit
    \/ Continue

SpecLegacy == Init /\ [][NextLegacy]_vars

(***************************************************************************)
(* SpecLegacyRename: the rename overloads of the legacy layer.             *)
(***************************************************************************)
\* the overloads: 1 rename(context, id, const char*), 2 rename(context, id,
\* string_view), 3 rename(context, id, field_idx, const char*), 4
\* rename(context, id, field_idx, string_view)
ExcRenameOverloads == 1..4

\* the overload the call in the body of an overload resolves to: the call
\* passes the overload's own arguments and no error code, the error-code
\* renames take one argument more, and a string_view does not convert to
\* const char*, so the overload that is running is the only viable one
exc_rename_callee(overload) == overload

\* the frames of rename the model follows before the stack is taken as
\* exhausted
MaxRecursion == 3

\* a caller enters a rename overload: a local error code is built
ExcRename ==
    \E overload \in ExcRenameOverloads, id \in MutateIds, n \in NewNames :
        /\ last = Idle
        /\ last' = [op |-> "exc_rename", overload |-> overload, id |-> id,
                    new_name |-> n, depth |-> 1, state |-> "running"]
        /\ err' = NoError
        /\ UNCHANGED <<storage, decl, ndecl>>

\* the body's call: a new activation of the overload it resolves to; the
\* test of the local error code behind the call is reached only when that
\* activation returns
ExcRenameCall ==
    /\ last.op = "exc_rename"
    /\ last.state = "running"
    /\ last.depth < MaxRecursion
    /\ last' = [last EXCEPT !.overload = exc_rename_callee(@), !.depth = @ + 1]
    /\ UNCHANGED <<storage, decl, ndecl, err>>

\* a recursion without end and without effect: the build either runs out of
\* stack or, with the call turned into a jump, spins in place
ExcRenameDiverge ==
    \E outcome \in {"stack_exhausted", "spinning"} :
        /\ last.op = "exc_rename"
        /\ last.state = "running"
        /\ last.depth = MaxRecursion
        /\ last' = [last EXCEPT !.state = outcome]
        /\ UNCHANGED <<storage, decl, ndecl, err>>

\* the caller goes on after a call that has returned
ExcContinue ==
    /\ last # Idle
    /\ (last.op = "exc_rename") => (last.state = "returned")
    /\ Continue

NextLegacyRename ==
    \/ LegacyMakeContext
    \/ LegacyAddTypeT
    \/ ExcRename
    \/ ExcRenameCall
    \/ ExcRenameDiverge
    \/ ExcContinue

\* every step the program can take is taken in the end
SpecLegacyRename == Init /\ [][NextLegacyRename]_vars /\ WF_vars(NextLegacyRename)

(***************************************************************************)
(* Properties                                                              *)
(***************************************************************************)
\* the identifiers visit_static compares with
CatalogueIds == {obtain_id(n) : n \in CatalogueNames}

\* the record a call was about is a structured type / a leaf
Structured(s, id) == contains(s, id) /\ s[id].fields # <<>>

Leaf(s, id) == contains(s, id) /\ s[id].fields = <<>>

\* size_of summed over the first n fields of a field list
RECURSIVE SumSizes(_, _, _)
SumSizes(s, fields, n) ==
    IF n = 0 THEN 0 ELSE SumSizes(s, fields, n - 1) + size(s, fields[n].id)

\* the handler of a visit never returns false
Accepting(v) == \A n \in 1..Len(v.answers) : call_result(v.shape, v.answers, n)

\* C1: add_type with a declaration whose identifier is already registered
\* reports already_registered and leaves the registry, the stored record
\* included, as it was.
C1_DuplicateRejected ==
    [][ (last'.op = "add_type" /\ contains(storage, last'.id))
            => (err' = "already_registered" /\ storage' = storage) ]_vars

\* a declaration "char" with a size and a field of its own has been refused
\* and the record of char is still the native one
C1_Witness ==
    /\ last.op = "add_type"
    /\ err = "already_registered"
    /\ decl.live /\ decl.fields # <<>> /\ decl.size = 4
    /\ storage[decl.id].fields = <<>> /\ storage[decl.id].size = 1

\* C2: rename, erase and remove_type of a registered record with a
\* non-empty field list fail with invalid_type and change nothing, however
\* the record was registered; on a record with an empty field list they
\* succeed, and after an erase the identifier is no longer contained.
C2_StructuredRecordsImmutable ==
    [][ /\ (last'.op \in {"rename", "erase", "remove_type"} /\ Structured(storage, last'.id))
            => (err' = "invalid_type" /\ storage' = storage)
        /\ (last'.op \in {"erase", "remove_type"} /\ Leaf(storage, last'.id))
            => (err' = NoError /\ ~contains(storage', last'.id))
        /\ (last'.op = "rename" /\ Leaf(storage, last'.id))
            => (err' = NoError /\ contains(storage', last'.id)) ]_vars

\* C3: every field of every registered record names a registered type.
C3_FieldTypesRegistered ==
    \A id \in DOMAIN storage :
        \A i \in 1..Len(storage[id].fields) : contains(storage, storage[id].fields[i].id)

\* C4: a visit of a structured type that reports no error has invoked the
\* handler exactly once per field, in field order, and a handler that takes
\* a name has received the declared name of the field.
C4_OncePerFieldInOrder ==
    [][ (last'.op = "visit" /\ err' = NoError /\ Structured(storage, last'.id))
            => LET fields == storage[last'.id].fields
                   calls == last'.calls
               IN  /\ Len(calls) = Len(fields)
                   /\ \A i \in 1..Len(calls) :
                        /\ calls[i].field = i
                        /\ TakesName(last'.shape) => calls[i].name = fields[i].name ]_vars

\* C5: a visit of a leaf invokes the handler exactly once: with the typed
\* value when the identifier is one the catalogue knows, and then with
\* nothing else; with the erased tuple otherwise.
C5_LeafDispatchedOnce ==
    [][ (last'.op = "visit" /\ Leaf(storage, last'.id))
            => /\ Len(last'.calls) = 1
               /\ last'.calls[1].kind =
                      (IF last'.id \in CatalogueIds THEN "typed" ELSE "erased") ]_vars

\* C6: a visit of a structured type with a handler that rejects nothing
\* fails with unregistered_id whenever the type of one of the fields is not
\* registered, be that type in the catalogue or not.
C6_UnregisteredFieldFails ==
    [][ (/\ last'.op = "visit"
         /\ Structured(storage, last'.id)
         /\ Accepting(last')
         /\ \E i \in 1..Len(storage[last'.id].fields) :
                ~contains(storage, storage[last'.id].fields[i].id))
            => err' = "unregistered_id" ]_vars

\* C7: when a boolean handler returns false for a field, the visit fails
\* with invalid_argument and that invocation was the last one: the handler
\* is invoked neither again for that field nor for a later one.
C7_RejectionStopsVisit ==
    [][ (last'.op = "visit" /\ Structured(storage, last'.id))
            => \A n \in 1..Len(last'.calls) :
                   ~call_result(last'.shape, last'.answers, n)
                       => (err' = "invalid_argument" /\ n = Len(last'.calls)) ]_vars

\* C8: an add_type, with a declaration or add_type<T>, that reports
\* already_registered leaves the number of entries of the registry as it
\* was.
C8_RejectedAddKeepsCount ==
    [][ (last'.op \in {"add_type", "add_type_T"} /\ err' = "already_registered")
            => Cardinality(DOMAIN storage') = Cardinality(DOMAIN storage) ]_vars

LegacyOps == {"exc_make_context", "exc_add_type", "exc_add_type_T", "exc_offset",
              "exc_visit"}

\* C11: a legacy overload leaves the registry the error-code overload
\* leaves, and every failure the error-code overload reports in its error
\* code leaves the legacy overload as an exception.
C11_LegacySurfacesFailures ==
    [][ (last'.op \in LegacyOps)
            => /\ last'.thrown = last'.code
               /\ (last'.op = "exc_add_type")
                    => storage' = add_type(storage, NoError, decl).storage
               /\ (last'.op = "exc_add_type_T")
                    => \E T \in NativeTypes :
                           /\ last'.id = obtain_id(T)
                           /\ storage' = add_type_T(storage, NoError, T).storage
               /\ (last'.op = "exc_make_context")
                    => storage' = make_context(NoError).storage
               /\ (last'.op \in {"exc_offset", "exc_visit"})
                    => storage' = storage ]_vars

\* C12: a visit with an identifier the registry does not hold reports
\* unregistered_id and does not invoke the handler.
C12_VisitUnregistered ==
    [][ (last'.op = "visit" /\ ~contains(storage, last'.id))
            => (err' = "unregistered_id" /\ last'.calls = <<>>) ]_vars

\* char, a type of the catalogue, has been erased from a filled registry
\* and then visited
C12_Witness ==
    /\ last.op = "visit"
    /\ last.id = obtain_id(Char)
    /\ ~contains(storage, last.id)
    /\ contains(storage, obtain_id(CharP))
    /\ err = "unregistered_id"
    /\ last.calls = <<>>

\* C13: an emplace of the builder, with or without explicit offset, whose
\* field type identifier is not registered reports unregistered_id and
\* leaves the builder as it was; with a registered identifier it appends
\* exactly one field, of that name and type, behind the fields it had.
C13_EmplaceChecksFieldType ==
    [][ (last'.op \in {"emplace", "emplace_at"})
            => IF ~contains(storage, last'.id)
               THEN err' = "unregistered_id" /\ decl'.fields = decl.fields
               ELSE LET n == Len(decl'.fields)
                    IN  /\ err' = NoError
                        /\ n = Len(decl.fields) + 1
                        /\ SubSeq(decl'.fields, 1, n - 1) = decl.fields
                        /\ decl'.fields[n].id = last'.id
                        /\ decl'.fields[n].name = last'.name
                        /\ (last'.op = "emplace_at")
                             => decl'.fields[n].offset = last'.offset ]_vars

\* an emplace with explicit offset of a type that is not registered has
\* been refused by a builder that holds two fields
C13_Witness ==
    /\ last.op = "emplace_at"
    /\ ~contains(storage, last.id)
    /\ err = "unregistered_id"
    /\ Len(decl.fields) = 2

\* new is old without its k-th field, the others as they were and in order
RemovedAt(old, new, k) ==
    /\ Len(new) = Len(old) - 1
    /\ \A j \in 1..Len(new) : new[j] = (IF j < k THEN old[j] ELSE old[j + 1])

\* the fields whose name hashes as the given name does
SameHash(fields, field_name) ==
    {i \in 1..Len(fields) : binhash32(fields[i].name) = binhash32(field_name)}

\* C14: an erase of the builder with an index that is not below the number
\* of fields, or with a name whose hash no field's name has, reports
\* invalid_argument and leaves the field list as it was; otherwise it
\* removes exactly one field, the indexed one or the first whose name hash
\* matches, and the other fields keep order, names, types and offsets.
C14_BuilderErase ==
    [][ /\ (last'.op = "decl_erase_idx")
            => IF last'.idx >= Len(decl.fields)
               THEN err' = "invalid_argument" /\ decl'.fields = decl.fields
               ELSE err' = NoError /\ RemovedAt(decl.fields, decl'.fields, last'.idx + 1)
        /\ (last'.op = "decl_erase_name")
            => LET hit == SameHash(decl.fields, last'.name)
               IN  IF hit = {}
                   THEN err' = "invalid_argument" /\ decl'.fields = decl.fields
                   ELSE /\ err' = NoError
                        /\ \E k \in hit :
                               /\ \A j \in hit : k <= j
                               /\ RemovedAt(decl.fields, decl'.fields, k) ]_vars

\* an erase by name has removed the first of the fields of that name and
\* another field of the same name is still in the builder, behind a field
\* of another name
C14_Witness ==
    /\ last.op = "decl_erase_name"
    /\ err = NoError
    /\ Len(decl.fields) = 2
    /\ decl.fields[2].name = last.name
    /\ decl.fields[1].name # last.name

\* C15: rename, erase and remove_type with an identifier the registry does
\* not hold report unregistered_id and leave the registry, its identifiers
\* and every record, as it was.
C15_MutatorsUnregistered ==
    [][ (last'.op \in {"rename", "erase", "remove_type"} /\ ~contains(storage, last'.id))
            => (err' = "unregistered_id" /\ storage' = storage) ]_vars

\* a rename of the declared name "A" has been refused by a registry that
\* holds the native types but not "A"
C15_Witness ==
    /\ last.op = "rename"
    /\ last.id = obtain_id(NameA)
    /\ ~contains(storage, last.id)
    /\ contains(storage, obtain_id(Char))
    /\ err = "unregistered_id"

\* h * 33 + b modulo 2^64, for a byte b in 0..255
FoldStep(h, b) ==
    LET t0 == h[1] * 33 + b
        t1 == h[2] * 33 + (t0 \div Limb)
        t2 == h[3] * 33 + (t1 \div Limb)
        t3 == h[4] * 33 + (t2 \div Limb)
    IN  <<t0 % Limb, t1 % Limb, t2 % Limb, t3 % Limb>>

\* the fold h0 = 5381, h(i+1) = h(i) * 33 + byte(i) modulo 2^64
RECURSIVE Fold(_, _)
Fold(str, n) == IF n = 0 THEN HashSeed ELSE FoldStep(Fold(str, n - 1), str[n])

\* C16: binhash over a string view and binhash over (pointer, size) both
\* return the fold h0 = 5381, h(i+1) = h(i) * 33 + byte(i) modulo 2^64 over
\* the bytes of the name, for every byte sequence.
C16_HashIsTheFold ==
    [][ (last'.op = "binhash")
            => /\ last'.view = Fold(last'.str, Len(last'.str))
               /\ last'.ptr = Fold(last'.str, Len(last'.str)) ]_vars

\* C17: compiler decoration is excluded from the hash input: the identifier
\* obtained for a name with a decoration substring ("struct ", "class ",
\* "__cxx11::") in it equals the identifier obtained for the name itself.
C17_DecorationExcluded ==
    [][ (last'.op = "obtain_id") => (last'.decorated_id = last'.id) ]_vars

\* the fields among the first n of a field list that the static catalogue
\* matches, in declaration order: the type each has and where it lies
RECURSIVE Matched(_, _, _)
Matched(fields, memory, n) ==
    IF n = 0 THEN <<>>
    ELSE Matched(fields, memory, n - 1)
             \o (IF fields[n].id \in CatalogueIds
                 THEN <<[id |-> fields[n].id, addr |-> memory + fields[n].offset, field |-> n]>>
                 ELSE <<>>)

\* the objects a construct or destruct made: type, address, field
Objects(made) ==
    [i \in 1..Len(made) |-> [id |-> made[i].id, addr |-> made[i].addr, field |-> made[i].field]]

\* where the objects lie and for which field each was made
Places(objs) == [i \in 1..Len(objs) |-> [addr |-> objs[i].addr, field |-> objs[i].field]]

\* C18: construct of a registered structured type that reports no error has
\* placement-constructed every field the static catalogue matches, each
\* exactly once, in declaration order, as an object of the field's type at
\* memory + field offset, and nothing else (the fields handed over as the
\* erased tuple are untouched); destruct has destroyed exactly these.
C18_ConstructsMatchedFields ==
    [][ (/\ last'.op \in {"construct", "destruct"}
         /\ Structured(storage, last'.id)
         /\ err' = NoError)
            => LET fields == storage[last'.id].fields
               IN  Objects(last'.made) = Matched(fields, last'.data, Len(fields)) ]_vars

\* the traversal of a field list fails at field k: k is the first field
\* whose type neither the catalogue matches nor the registry holds
FailsAt(s, fields, k) ==
    /\ k \in 1..Len(fields)
    /\ fields[k].id \notin CatalogueIds /\ ~contains(s, fields[k].id)
    /\ \A j \in 1..(k - 1) : fields[j].id \in CatalogueIds \/ contains(s, fields[j].id)

C20_BudgetedVisit ==
    [][ (last'.op = "visit_level" /\ Structured(storage, last'.id))
            => /\ last'.built
               /\ last'.level = 0
                      => \A i \in 1..Len(last'.calls) :
                             last'.calls[i].field \in 1..Len(storage[last'.id].fields) ]_vars

\* C21: after add_type<T> has succeeded, the entries it registered for
\* vector<T> and vector<vector<T>> are separate registry entries whose
\* base-type link is the identifier of T, and the record of T links to itself.
C21_VariantsLinkToBase ==
    [][ (last'.op = "add_type_T" /\ err' = NoError)
            => \A T \in NativeTypes :
                   obtain_id(T) = last'.id
                       => /\ base_type(storage', obtain_id(T)) = obtain_id(T)
                          /\ \A V \in {VecOf(T), VecOf(VecOf(T))} :
                                 /\ contains(storage', obtain_id(V))
                                 /\ obtain_id(V) # obtain_id(T)
                                 /\ base_type(storage', obtain_id(V)) = obtain_id(T) ]_vars

\* C22: contains, size, offset, type_name, visit, construct and destruct
\* never change the registry, whether they succeed or fail, and a reader
\* whose call overlaps the calls of other readers, with no mutation in
\* flight, gets the result it would have got alone.
C22_ReadsLeaveRegistry ==
    [][ (last # Idle /\ last.op = "reading") =>
            /\ storage' = storage
            /\ \A r \in Readers :
                   (/\ last' # Idle
                    /\ last.calls[r].phase = "begun"
                    /\ last'.calls[r].phase = "done")
                       => last'.calls[r].result = last.calls[r].alone ]_vars

\* a reader got the invalid size of an identifier that is not registered
\* while the visit of a structured type by the other reader was in flight
C22_Witness ==
    /\ last # Idle
    /\ last.op = "reading"
    /\ last.calls[1].phase = "done"
    /\ last.calls[1].call.op = "size"
    /\ last.calls[1].result.value = INVALID_SIZE
    /\ last.calls[2].phase = "begun"
    /\ last.calls[2].call.op = "visit"
    /\ last.calls[2].alone.value # <<>>

\* field i is the first at which the statically reflected field type
\* differs from the type id the record holds
FirstMismatch(fields, nf, i) ==
    /\ i \in 1..Len(nf) /\ i <= Len(fields)
    /\ obtain_id(nf[i].type) # fields[i].id
    /\ \A j \in 1..(i - 1) : obtain_id(nf[j].type) = fields[j].id

\* C23: when visit<T> finds at field i that the statically reflected field
\* type differs from the type id in the registry record, the caller sees
\* invalid_type on return; invalid_ordering is reported only when the static
\* layout has more fields than the record; in both cases the handler is not
\* invoked for field i or a later field.
C23_MismatchIsInvalidType ==
    [][ (last'.op = "visit_T" /\ Structured(storage, last'.id) /\ is_aggregate(last'.type))
            => LET fields == storage[last'.id].fields
                   nf == NativeFields(last'.type)
               IN  /\ \A i \in 1..Len(nf) :
                          FirstMismatch(fields, nf, i)
                              => /\ err' = "invalid_type"
                                 /\ \A n \in 1..Len(last'.calls) : last'.calls[n].field < i
                   /\ err' = "invalid_ordering"
                          => /\ Len(nf) > Len(fields)
                             /\ \A n \in 1..Len(last'.calls) :
                                    last'.calls[n].field <= Len(fields) ]_vars

\* C24: whenever the static catalogue match hands the handler a concretely
\* typed reference for a leaf or a field whose recorded type id is X, the
\* identifier of the type handed over is X (a vector<T> is delivered as
\* vector<T>, a vector<vector<T>> as vector<vector<T>>, for T and for T*).
C24_TypedReferenceHasRecordedType ==
    [][ (last'.op = "visit" /\ contains(storage, last'.id))
            => \A n \in 1..Len(last'.calls) :
                   LET c == last'.calls[n]
                       X == IF c.field = 0 THEN last'.id
                            ELSE storage[last'.id].fields[c.field].id
                   IN  c.kind = "typed" => c.id = X ]_vars

\* C25: in the earlier API of grr_types.hpp obtain_id(const char*) and
\* obtain_id(string_view) return the same identifier for every name.
C25_TypesObtainIdAgree ==
    [][ (last'.op = "types_obtain_id") => (last'.cstr = last'.view) ]_vars

\* C26: every call of a rename overload of the legacy layer returns to its
\* caller.
C26_LegacyRenameReturns ==
    (last.op = "exc_rename") ~> (last.op = "exc_rename" /\ last.state = "returned")

\* C27: every field of a registered record whose type is registered lies
\* inside the record: its offset plus the size of its type is at most the
\* size of the record.
C27_FieldsInsideRecord ==
    \A id \in DOMAIN storage :
        \A i \in 1..Len(storage[id].fields) :
            LET f == storage[id].fields[i]
            IN  contains(storage, f.id)
                    => f.offset + size(storage, f.id) <= storage[id].size

\* the three entries add_type<T> is to make
EntriesOf(T) == {obtain_id(T), obtain_id(VecOf(T)), obtain_id(VecOf(VecOf(T)))}

\* the registry holds none of T's entries and the types of all of T's fields
Addable(s, T) ==
    /\ EntriesOf(T) \cap DOMAIN s = {}
    /\ \A i \in 1..Len(NativeFields(T)) : contains(s, obtain_id(NativeFields(T)[i].type))

\* C28: from a registry that holds none of T's three entries, add_type<T>
\* ends with the registry a call entered with a clear error code ends with,
\* all three entries in it, whatever the error code holds on entry; and
\* make_context builds the registry it builds with a clear error code.
C28_RegistryIgnoresErrOnEntry ==
    [][ /\ (last'.op = "add_type_T")
            => \A T \in NativeTypes :
                   (last'.id = obtain_id(T) /\ Addable(storage, T))
                       => /\ storage' = add_type_T(storage, NoError, T).storage
                          /\ EntriesOf(T) \subseteq DOMAIN storage'
        /\ (last'.op = "make_context")
            => storage' = make_context(NoError).storage ]_vars

\* C29: a rename that reports no error leaves the set of identifiers as it
\* was and every record but the renamed one untouched; the renamed record
\* keeps its size, base type, aggregate flag and fields, and type_name gives
\* the new name.
C29_RenameChangesNameOnly ==
    [][ (last'.op = "rename" /\ err' = NoError)
            => /\ DOMAIN storage' = DOMAIN storage
               /\ contains(storage', last'.id)
               /\ type_name_of(storage', last'.id) = last'.new_name
               /\ storage'[last'.id] = [storage[last'.id] EXCEPT !.name = last'.new_name]
               /\ \A k \in DOMAIN storage \ {last'.id} : storage'[k] = storage[k] ]_vars

\* char, registered under the name "char" with size 1, has been renamed
C29_Witness ==
    /\ last.op = "rename"
    /\ err = NoError
    /\ last.id = obtain_id(Char)
    /\ contains(storage, last.id)
    /\ storage[last.id].name = NameN
    /\ storage[last.id].size = 1

\* the order of std::size_t on the model's offsets, where a negative number
\* -k stands for 2^64 - k
size_t_le(a, b) == IF (a < 0) = (b < 0) THEN a <= b ELSE b < 0

\* C30: an emplace without explicit offset that appends a field to a builder
\* holding fields gives it an offset that is not below the offset of the
\* field before it, in the order of std::size_t.
C30_BuilderOffsetsNeverDecrease ==
    [][ (last'.op = "emplace" /\ err' = NoError /\ decl.fields # <<>>)
            => size_t_le(decl.fields[Len(decl.fields)].offset,
                         decl'.fields[Len(decl'.fields)].offset) ]_vars

====
